---- MODULE Spec2Model ----
(***************************************************************************)
(* A model of pyvivint's VivintSkyApi (src/pyvivint/vivintskyapi.py): the  *)
(* cookie session and its validity check, the request dispatcher __call    *)
(* with its reauthentication, the endpoint operations that interpret a     *)
(* response, and the Z-Wave device metadata cache.                         *)
(*                                                                         *)
(* The client runs on an asyncio event loop: a coroutine runs without      *)
(* interruption from one await of network I/O to the next.  Each action    *)
(* below is one such run of one coroutine (a "task"): from the call or the *)
(* resumption up to the next suspension or the return.  The server, the    *)
(* network and the clock are the environment: response statuses, bodies,   *)
(* cookie lifetimes and clock ticks are chosen nondeterministically.       *)
(***************************************************************************)
EXTENDS Integers, Sequences, FiniteSets, TLC

\* ------------------------------------------------------------------ bounds

\* The clock runs from 0 to MaxTime.
MaxTime == 2
\* A login response sets a session cookie that expires 1..MaxLife ticks later.
MaxLife == 2
\* Cap on nested dispatcher frames (Python's recursion limit, scaled down).
MaxDepth == 3

\* The coroutines that use one client instance concurrently.
Tasks == {"t1", "t2"}

\* ---------------------------------------------------------- the environment

\* Response statuses the servers may answer with.
Statuses == {200, 204, 302, 401, 403}

\* What reading a response body as JSON can give: an object with a "msg"
\* field, another non-empty object, an empty object, or no JSON at all.
Bodies == {"msg", "data", "empty", "notjson"}

\* The Location header of a thumbnail response: a URL, or no such header.
Locations == {"http://example/thumb.jpg", "None"}

\* Arm states a caller may ask for.
ArmStates == {"ARMED", "DISARMED"}

\* Z-Wave lookup keys "manufacturer:product:type".
ZwaveKeys == {"1:2:3", "4:5:6"}

\* <title> contents the device database may answer with, as character
\* sequences; NoTitle is a page without a <title> element.
NoTitle == <<"<", ">">>
Titles ==
    { <<"A", "-", "B">>,
      <<"A", " ", "-", " ", "B">> }

\* ------------------------------------------------------------------- state

VARIABLES
    now,          \* datetime.utcnow()
    cookie,       \* cookie "s" of www.vivintsky.com in the client session's jar
    credentials,  \* __username, __password
    hasCustom,    \* __has_custom_client_session
    closed,       \* whether __client_session is closed
    cache,        \* __zwave_device_info
    task          \* each coroutine: its position and what it has done so far

vars == <<now, cookie, credentials, hasCustom, closed, cache, task>>

\* Python's None as a cache value / lookup result. str.split never returns an
\* empty list, so no stored value equals it.
None == <<>>

\* The session cookie: its value (here the name of the login exchange that
\* set it) and the instant its "expires" attribute denotes, as strptime reads
\* it on line 43; the clock and the expiration are counted in the same ticks.
NoCookie == [present |-> FALSE, token |-> "-", expires |-> 0]

Cookie(tok, exp) == [present |-> TRUE, token |-> tok, expires |-> exp]

\* A coroutine that has not been called.
IdleTask ==
    [ pc          |-> "idle",     \* idle, a suspension point, or done
      op          |-> "none",     \* the public method that was called
      arg         |-> "-",        \* its argument (arm state, lookup key)
      stack       |-> <<>>,       \* paths of the active __call frames
      checks      |-> 0,          \* is_session_valid evaluations by __call
      logins      |-> 0,          \* POST login requests sent
      auths       |-> 0,          \* connect() calls that returned
      sends       |-> 0,          \* requests sent on the operation's own path
      fetches     |-> 0,          \* GETs to the device database
      sawInvalid  |-> FALSE,      \* __call found the session invalid
      stored      |-> FALSE,      \* the operation's login replaced the session
      authCookie  |-> NoCookie,   \* the session that login stored (until sent)
      sentOwn     |-> FALSE,      \* the own request went out with that session
      sentValid   |-> FALSE,      \* ... and with a session valid at that time
      status      |-> 0,          \* status of the response being handled
      body        |-> "-",        \* what the login response's body held
      outcome     |-> "none",     \* "ok", or the exception raised
      ret         |-> "-",        \* returned value, or exception message
      info        |-> None ]      \* returned device info

\* ---------------------------------------------------------- pure functions

\* (mutant) a session that expires at this very instant counts as valid.
is_session_valid_at_expiry(c, clock) ==
    IF ~c.present THEN FALSE
    ELSE IF c.expires >= clock THEN TRUE ELSE FALSE

\* is_session_valid: no cookie -> False; else expiration > utcnow().
is_session_valid(c, clock) ==
    IF ~c.present THEN FALSE
    ELSE IF c.expires > clock THEN TRUE ELSE FALSE

\* Attributes __init__ sets on the instance, and the class's methods.
InstanceAttrs ==
    { "__username", "__password", "__client_session",
      "__has_custom_client_session", "__zwave_device_info" }

ClassAttrs ==
    { "is_session_valid", "connect", "disconnect", "get_authuser_data",
      "get_panel_credentials", "get_system_data", "set_alarm_state",
      "set_garage_door_state", "set_lock_state", "request_camera_thumbnail",
      "get_camera_thumbnail_url", "get_zwave_details" }

\* getattr(self, name): whether the lookup succeeds.
HasAttr(name) == name \in InstanceAttrs \cup ClassAttrs

\* <title> text split on the literal " - " (str.split): the pieces of s, cur
\* being the piece collected so far.
Sep == <<" ", "-", " ">>

RECURSIVE split(_, _)
split(s, cur) ==
    IF s = <<>> THEN <<cur>>
    ELSE IF Len(s) >= Len(Sep) /\ SubSeq(s, 1, Len(Sep)) = Sep
         THEN <<cur>> \o split(SubSeq(s, Len(Sep) + 1, Len(s)), <<>>)
         ELSE split(Tail(s), Append(cur, Head(s)))

\* The coroutine ends by raising exc (message m) to its caller.
Raise(r, exc, m) ==
    [r EXCEPT !.pc = "done", !.stack = <<>>, !.authCookie = NoCookie,
              !.outcome = exc, !.ret = m]

\* The coroutine ends by returning v.
Return(r, v) ==
    [r EXCEPT !.pc = "done", !.stack = <<>>, !.authCookie = NoCookie,
              !.outcome = "ok", !.ret = v]

\* The path each endpoint operation hands to the dispatcher.
PathOf(o) ==
    CASE o = "connect"                  -> "login"
      [] o = "get_authuser_data"        -> "authuser"
      [] o = "set_alarm_state"          -> "armedstates"
      [] o = "request_camera_thumbnail" -> "request-camera-thumbnail"
      [] o = "get_camera_thumbnail_url" -> "camera-thumbnail"

\* The endpoint operations that go through __get / __put.
DispatchOps ==
    { "get_authuser_data", "set_alarm_state", "request_camera_thumbnail",
      "get_camera_thumbnail_url" }

\* ----------------------------------------------------------- the dispatcher

\* (mutant) the validity check is made for every path, the login path too.
ChecksSession_every_path(path) == TRUE

\* __call, line 280, left operand: the validity check is evaluated only for
\* a path other than "login" (short-circuit and).
ChecksSession(path) == path # "login"

\* (mutant) every dispatch on a non-login path reauthenticates, valid
\* session or not.
NeedsReauth_whatever_the_session(path, c, clock) == ChecksSession(path)

\* __call, line 280: the whole condition.
NeedsReauth(path, c, clock) ==
    ChecksSession(path) /\ ~is_session_valid(c, clock)

\* __call, lines 283-289: await method(url, ...). A closed aiohttp session
\* raises RuntimeError; otherwise the request goes out and the coroutine
\* suspends until the response arrives.
send(r, path) ==
    IF closed THEN Raise(r, "RuntimeError", "Session is closed")
    ELSE IF path = "login"
         THEN [r EXCEPT !.pc = "login_wait", !.logins = @ + 1]
         ELSE [r EXCEPT !.pc = "req_wait", !.sends = @ + 1, !.status = 0,
                        !.body = "-",
                        !.sentOwn = (r.stored /\ cookie = r.authCookie),
                        !.sentValid = is_session_valid(cookie, now),
                        !.authCookie = NoCookie]

\* (mutant) __call finds the session invalid and sends the request all the
\* same, without reauthenticating first.
call_without_connect(r, path) ==
    send([r EXCEPT !.stack = Append(@, path),
                   !.checks = @ + (IF ChecksSession(path) THEN 1 ELSE 0),
                   !.sawInvalid = @ \/ NeedsReauth(path, cookie, now)],
         path)

\* __call entered for path, run up to its first suspension. Reauthentication
\* is connect() -> __get_vivintsky_session -> __post("login") -> __call again.
RECURSIVE call(_, _)
call(r, path) ==
    IF Len(r.stack) >= MaxDepth THEN Raise(r, "RecursionError", "-")
    ELSE LET r1 == [r EXCEPT !.stack = Append(@, path),
                             !.checks = @ + (IF ChecksSession(path) THEN 1 ELSE 0),
                             !.sawInvalid = @ \/ NeedsReauth(path, cookie, now)]
         IN  IF NeedsReauth(path, cookie, now)
             THEN call(r1, "login")
             ELSE send(r1, path)

\* (mutant) a 401 is handled like any other error status: raise_for_status.
get_vivintsky_session_401_as_status(st, body) ==
    IF body = "notjson" THEN [exc |-> "ContentTypeError", val |-> "-"]
    ELSE IF st = 200
         THEN [exc |-> "ok", val |-> IF body = "empty" THEN body ELSE "json"]
    ELSE IF st >= 400
         THEN [exc |-> "ClientResponseError", val |-> ToString(st)]
         ELSE [exc |-> "ok", val |-> "None"]

\* (mutant) raise_for_status is left out: every other status returns None.
get_vivintsky_session_no_raise(st, body) ==
    IF body = "notjson" THEN [exc |-> "ContentTypeError", val |-> "-"]
    ELSE IF st = 200
         THEN [exc |-> "ok", val |-> IF body = "empty" THEN body ELSE "json"]
    ELSE IF st = 401
         THEN IF body = "msg"
              THEN [exc |-> "VivintSkyApiAuthenticationError", val |-> "server msg"]
              ELSE [exc |-> "KeyError", val |-> "msg"]
    ELSE [exc |-> "ok", val |-> "None"]

\* __get_vivintsky_session, lines 226-233, once the body has been read.
get_vivintsky_session(st, body) ==
    IF body = "notjson" THEN [exc |-> "ContentTypeError", val |-> "-"]
    ELSE IF st = 200
         THEN [exc |-> "ok", val |-> IF body = "empty" THEN body ELSE "json"]
    ELSE IF st = 401
         THEN IF body = "msg"
              THEN [exc |-> "VivintSkyApiAuthenticationError", val |-> "server msg"]
              ELSE [exc |-> "KeyError", val |-> "msg"]
    ELSE IF st >= 400
         THEN [exc |-> "ClientResponseError", val |-> ToString(st)]
         ELSE [exc |-> "ok", val |-> "None"]

\* connect, lines 50-55: a falsy payload is an authentication error.
connect(res) ==
    IF res.exc = "ok" /\ res.val \in {"None", "empty"}
    THEN [exc |-> "VivintSkyApiAuthenticationError",
          val |-> "Unable to login to Vivint."]
    ELSE res

\* ------------------------------------------------- the endpoint operations

\* get_authuser_data, lines 70-74, on the response's status.
get_authuser_data(r, st) ==
    IF st = 200 THEN [r EXCEPT !.pc = "resp_body"]
    ELSE Raise(r, "VivintSkyApiAuthenticationError", "Missing auth user data.")

\* set_alarm_state, lines 115-117, on the response's status.
set_alarm_state(r, st) ==
    IF st # 200 THEN [r EXCEPT !.pc = "resp_body"]
    ELSE Return(r, "None")

\* set_alarm_state, lines 118-124, after resp.text(): the message is an
\* f-string that reads self.id.
set_alarm_state_raise(r) ==
    IF HasAttr("id")
    THEN Raise(r, "VivintSkyApiError", r.arg)
    ELSE Raise(r, "AttributeError", "id")

\* request_camera_thumbnail, lines 178-182: the log line is an f-string that
\* reads self.id.
request_camera_thumbnail(r, st) ==
    IF st < 200 \/ st > 299
    THEN IF HasAttr("id") THEN Return(r, "None")
         ELSE Raise(r, "AttributeError", "id")
    ELSE Return(r, "None")

\* get_camera_thumbnail_url, lines 196-203: the log line is an f-string that
\* reads self.id.
get_camera_thumbnail_url(r, st, loc) ==
    IF st # 302
    THEN IF HasAttr("id") THEN Return(r, "None")
         ELSE Raise(r, "AttributeError", "id")
    ELSE Return(r, loc)

\* The operation's handling of the response to its own request.
Interpret(r, st, loc) ==
    CASE r.op = "get_authuser_data"        -> get_authuser_data(r, st)
      [] r.op = "set_alarm_state"          -> set_alarm_state(r, st)
      [] r.op = "request_camera_thumbnail" -> request_camera_thumbnail(r, st)
      [] r.op = "get_camera_thumbnail_url" -> get_camera_thumbnail_url(r, st, loc)

\* (mutant) the stored value is ignored: every lookup goes to the network.
CacheHit_never(k) == FALSE

\* get_zwave_details, lines 294-295: the cache hit test.
CacheHit(k) == cache[k] # None

\* ---------------------------------------------------------------- actions

\* __init__, lines 32-36. A client session made by the client itself starts
\* with an empty cookie jar; one handed in by the caller may already hold a
\* session cookie of an earlier login, with any expiration.
Init ==
    /\ now = 0
    /\ hasCustom \in BOOLEAN
    /\ cookie \in IF hasCustom
                 THEN {NoCookie} \cup {Cookie("s0", e) : e \in 0..MaxLife}
                 ELSE {NoCookie}
    /\ credentials = [username |-> "user", password |-> "pw"]
    /\ closed = FALSE
    /\ cache = [k \in ZwaveKeys |-> None]
    /\ task = [t \in Tasks |-> IdleTask]

\* A coroutine can be called when it is not running.
Free(t) == task[t].pc \in {"idle", "done"}

\* The record of a coroutine that starts operation o with argument a.
Start(o, a) == [IdleTask EXCEPT !.op = o, !.arg = a]

\* (mutant) the validity check drops a cookie it finds expired.
IsSessionValid_purging(t) ==
    /\ Free(t)
    /\ task' = [task EXCEPT ![t] =
            Return(Start("is_session_valid", "-"),
                   IF is_session_valid(cookie, now) THEN "True" ELSE "False")]
    /\ cookie' = IF is_session_valid(cookie, now) THEN cookie ELSE NoCookie
    /\ UNCHANGED <<now, credentials, hasCustom, closed, cache>>

\* is_session_valid(), lines 38-46, called by the user: synchronous.
IsSessionValid(t) ==
    /\ Free(t)
    /\ task' = [task EXCEPT ![t] =
            Return(Start("is_session_valid", "-"),
                   IF is_session_valid(cookie, now) THEN "True" ELSE "False")]
    /\ UNCHANGED <<now, cookie, credentials, hasCustom, closed, cache>>

\* connect(), lines 48-55, called by the user: up to the login request.
Connect(t) ==
    /\ Free(t)
    /\ task' = [task EXCEPT ![t] = call(Start("connect", "-"), "login")]
    /\ UNCHANGED <<now, cookie, credentials, hasCustom, closed, cache>>

\* (mutant) disconnect closes the transport session, the caller's too.
Disconnect_always_closes(t) ==
    /\ Free(t)
    /\ closed' = TRUE
    /\ task' = [task EXCEPT ![t] = Return(Start("disconnect", "-"), "None")]
    /\ UNCHANGED <<now, cookie, credentials, hasCustom, cache>>

\* disconnect(), lines 57-60.
Disconnect(t) ==
    /\ Free(t)
    /\ closed' = (closed \/ ~hasCustom)
    /\ task' = [task EXCEPT ![t] = Return(Start("disconnect", "-"), "None")]
    /\ UNCHANGED <<now, cookie, credentials, hasCustom, cache>>

\* An endpoint operation called by the user: __get / __put -> __call, up to
\* the first request that goes out.
Dispatch(t, o, a) ==
    /\ Free(t)
    /\ task' = [task EXCEPT ![t] = call(Start(o, a), PathOf(o))]
    /\ UNCHANGED <<now, cookie, credentials, hasCustom, closed, cache>>

\* (mutant) the login response sets the session cookie whatever its status.
LoginResponse_any_status(t, st, life) ==
    /\ task[t].pc = "login_wait"
    /\ cookie' = Cookie(t, now + life)
    /\ task' = [task EXCEPT ![t].pc = "login_body", ![t].status = st,
                            ![t].stored = TRUE,
                            ![t].authCookie = cookie']
    /\ UNCHANGED <<now, credentials, hasCustom, closed, cache>>

\* The login response arrives (line 219 resumes): aiohttp stores the session
\* cookie a 200 response sets, then the body is awaited (line 226).
LoginResponse(t, st, life) ==
    /\ task[t].pc = "login_wait"
    /\ cookie' = IF st = 200 THEN Cookie(t, now + life) ELSE cookie
    /\ task' = [task EXCEPT ![t].pc = "login_body", ![t].status = st,
                            ![t].stored = (st = 200),
                            ![t].authCookie = IF st = 200 THEN cookie' ELSE @]
    /\ UNCHANGED <<now, credentials, hasCustom, closed, cache>>

\* (mutant) the dispatcher swallows the failure of connect and goes on to
\* send its own request.
LoginBody_sending_anyway(t, body) ==
    /\ task[t].pc = "login_body"
    /\ LET r   == [task[t] EXCEPT !.body = body]
           res == connect(get_vivintsky_session(r.status, body))
           r1  == [r EXCEPT !.stack = SubSeq(@, 1, Len(@) - 1),
                            !.auths = @ + 1]
           r0  == [r EXCEPT !.stack = SubSeq(@, 1, Len(@) - 1)]
       IN  task' = [task EXCEPT ![t] =
               IF r1.stack = <<>>
               THEN IF res.exc # "ok" THEN Raise(r, res.exc, res.val)
                    ELSE Return(r1, res.val)
               ELSE IF res.exc # "ok" THEN send(r0, r0.stack[Len(r0.stack)])
               ELSE send(r1, r1.stack[Len(r1.stack)])]
    /\ UNCHANGED <<now, cookie, credentials, hasCustom, closed, cache>>

\* (mutant) a failed login is tried again instead of being raised.
LoginBody_retrying_login(t, body) ==
    /\ task[t].pc = "login_body"
    /\ LET r   == [task[t] EXCEPT !.body = body]
           res == connect(get_vivintsky_session(r.status, body))
           r1  == [r EXCEPT !.stack = SubSeq(@, 1, Len(@) - 1),
                            !.auths = @ + 1]
       IN  task' = [task EXCEPT ![t] =
               IF res.exc # "ok"
               THEN IF r.logins < 2 THEN send(r, "login")
                    ELSE Raise(r, res.exc, res.val)
               ELSE IF r1.stack = <<>> THEN Return(r1, res.val)
               ELSE send(r1, r1.stack[Len(r1.stack)])]
    /\ UNCHANGED <<now, cookie, credentials, hasCustom, closed, cache>>

\* The login body has been read (line 226 resumes): lines 227-233, connect's
\* lines 53-55, and on success __call goes on to its own request (line 283).
LoginBody(t, body) ==
    /\ task[t].pc = "login_body"
    /\ LET r   == [task[t] EXCEPT !.body = body]
           res == connect(get_vivintsky_session(r.status, body))
           r1  == [r EXCEPT !.stack = SubSeq(@, 1, Len(@) - 1),
                            !.auths = @ + 1]
       IN  task' = [task EXCEPT ![t] =
               IF res.exc # "ok" THEN Raise(r, res.exc, res.val)
               ELSE IF r1.stack = <<>> THEN Return(r1, res.val)
               ELSE send(r1, r1.stack[Len(r1.stack)])]
    /\ UNCHANGED <<now, cookie, credentials, hasCustom, closed, cache>>

\* (mutant) the dispatcher reacts to a 401 by sending the request again.
ReqResponse_resending_on_401(t, st, loc) ==
    /\ task[t].pc = "req_wait"
    /\ task' = [task EXCEPT ![t] =
            IF st = 401 /\ task[t].sends < 2
            THEN send(task[t], PathOf(task[t].op))
            ELSE Interpret([task[t] EXCEPT !.status = st], st, loc)]
    /\ UNCHANGED <<now, cookie, credentials, hasCustom, closed, cache>>

\* The response to the operation's own request arrives (line 283 resumes) and
\* the endpoint operation interprets it.
ReqResponse(t, st, loc) ==
    /\ task[t].pc = "req_wait"
    /\ task' = [task EXCEPT ![t] =
            Interpret([task[t] EXCEPT !.status = st], st, loc)]
    /\ UNCHANGED <<now, cookie, credentials, hasCustom, closed, cache>>

\* The body of the operation's response has been read (lines 72, 117).
RespBody(t, body) ==
    /\ task[t].pc = "resp_body"
    /\ task' = [task EXCEPT ![t] =
            IF task[t].op = "set_alarm_state" THEN set_alarm_state_raise(task[t])
            ELSE IF body = "notjson" THEN Raise(task[t], "ContentTypeError", "-")
            ELSE Return(task[t], "json")]
    /\ UNCHANGED <<now, cookie, credentials, hasCustom, closed, cache>>

\* get_zwave_details(), lines 291-299: a hit returns the stored value, a miss
\* sends a GET to the device database on a session of its own.
GetZwaveDetails(t, k) ==
    /\ Free(t)
    /\ task' = [task EXCEPT ![t] =
            IF CacheHit(k)
            THEN [Return(Start("get_zwave_details", k), "list") EXCEPT
                      !.info = cache[k]]
            ELSE [Start("get_zwave_details", k) EXCEPT
                      !.pc = "zw_wait", !.fetches = @ + 1]]
    /\ UNCHANGED <<now, cookie, credentials, hasCustom, closed, cache>>

\* (mutant) a lookup the device database refuses drops the key's entry.
ZwaveResponse_evicting(t, st) ==
    /\ task[t].pc = "zw_wait"
    /\ LET r == [task[t] EXCEPT !.status = st]
       IN  task' = [task EXCEPT ![t] =
               IF st = 200 THEN [r EXCEPT !.pc = "zw_text"]
               ELSE IF st >= 400
                    THEN Raise(r, "ClientResponseError", ToString(st))
                    ELSE Return(r, "None")]
    /\ cache' = IF st = 200 THEN cache
                ELSE [cache EXCEPT ![task[t].arg] = None]
    /\ UNCHANGED <<now, cookie, credentials, hasCustom, closed>>

\* The device database answers (line 299 resumes): lines 302, 307-309.
ZwaveResponse(t, st) ==
    /\ task[t].pc = "zw_wait"
    /\ LET r == [task[t] EXCEPT !.status = st]
       IN  task' = [task EXCEPT ![t] =
               IF st = 200 THEN [r EXCEPT !.pc = "zw_text"]
               ELSE IF st >= 400
                    THEN Raise(r, "ClientResponseError", ToString(st))
                    ELSE Return(r, "None")]
    /\ UNCHANGED <<now, cookie, credentials, hasCustom, closed, cache>>

\* (mutant) a page without a <title> is remembered as an empty description.
ZwaveText_negative_caching(t, text) ==
    /\ task[t].pc = "zw_text"
    /\ cache' = [cache EXCEPT ![task[t].arg] =
            IF text = NoTitle THEN << <<"?">> >> ELSE split(text, <<>>)]
    /\ task' = [task EXCEPT ![t] =
            IF text = NoTitle THEN Raise(task[t], "TypeError", "d[1]")
            ELSE [Return(task[t], "list") EXCEPT !.info = cache'[task[t].arg]]]
    /\ UNCHANGED <<now, cookie, credentials, hasCustom, closed>>

\* The page has been read (line 303 resumes): lines 304-306. Without a
\* <title> re.search gives None and d[1] raises TypeError before the store.
ZwaveText(t, text) ==
    /\ task[t].pc = "zw_text"
    /\ IF text = NoTitle
       THEN /\ task' = [task EXCEPT ![t] = Raise(task[t], "TypeError", "d[1]")]
            /\ cache' = cache
       ELSE /\ cache' = [cache EXCEPT ![task[t].arg] = split(text, <<>>)]
            /\ task' = [task EXCEPT ![t] =
                    [Return(task[t], "list") EXCEPT
                         !.info = cache'[task[t].arg]]]
    /\ UNCHANGED <<now, cookie, credentials, hasCustom, closed>>

\* Where a coroutine is suspended in network I/O.
Suspended(t) ==
    task[t].pc \in {"login_wait", "login_body", "req_wait", "resp_body",
                    "zw_wait", "zw_text"}

\* The awaited network call fails (connection lost, timeout): the transport
\* error propagates to the caller unchanged.
NetFail(t) ==
    /\ Suspended(t)
    /\ task' = [task EXCEPT ![t] = Raise(task[t], "ClientConnectionError", "-")]
    /\ UNCHANGED <<now, cookie, credentials, hasCustom, closed, cache>>

\* (mutant) abandoning a coroutine also throws the session cookie away.
Cancel_dropping_session(t) ==
    /\ Suspended(t)
    /\ task' = [task EXCEPT ![t] = Raise(task[t], "CancelledError", "-")]
    /\ cookie' = NoCookie
    /\ UNCHANGED <<now, credentials, hasCustom, closed, cache>>

\* The caller abandons the coroutine at its suspension point.
Cancel(t) ==
    /\ Suspended(t)
    /\ task' = [task EXCEPT ![t] = Raise(task[t], "CancelledError", "-")]
    /\ UNCHANGED <<now, cookie, credentials, hasCustom, closed, cache>>

\* Time passes.
Tick ==
    /\ now < MaxTime
    /\ now' = now + 1
    /\ UNCHANGED <<cookie, credentials, hasCustom, closed, cache, task>>

\* One coroutine at a time: every operation of the client, called by a single
\* caller that awaits each call before it makes the next.
Caller == {"t1"}

Next ==
    \/ \E t \in Caller : IsSessionValid(t)
    \/ \E t \in Caller : Connect(t)
    \/ \E t \in Caller : Disconnect(t)
    \/ \E t \in Caller, o \in DispatchOps :
           \E a \in (IF o = "set_alarm_state" THEN ArmStates ELSE {"-"}) :
               Dispatch(t, o, a)
    \/ \E t \in Caller, st \in Statuses, life \in 1..MaxLife :
           LoginResponse(t, st, life)
    \/ \E t \in Caller, body \in Bodies : LoginBody(t, body)
    \/ \E t \in Caller, st \in Statuses, loc \in Locations :
           ReqResponse(t, st, loc)
    \/ \E t \in Caller, body \in Bodies : RespBody(t, body)
    \/ \E t \in Caller, k \in ZwaveKeys : GetZwaveDetails(t, k)
    \/ \E t \in Caller, st \in Statuses : ZwaveResponse(t, st)
    \/ \E t \in Caller, text \in Titles \cup {NoTitle} : ZwaveText(t, text)
    \/ \E t \in Caller : NetFail(t)
    \/ \E t \in Caller : Cancel(t)
    \/ Tick

Spec == Init /\ [][Next]_vars

\* Concurrent coroutines on one client, suspended and resumed in any order:
\* the session and dispatch layer (connect and a dispatched GET).
ConcurrentOps == {"get_authuser_data"}

NextSession ==
    \/ \E t \in Tasks : Connect(t)
    \/ \E t \in Tasks, o \in ConcurrentOps : Dispatch(t, o, "-")
    \/ \E t \in Tasks, st \in Statuses, life \in 1..MaxLife :
           LoginResponse(t, st, life)
    \/ \E t \in Tasks, body \in Bodies : LoginBody(t, body)
    \/ \E t \in Tasks, st \in Statuses, loc \in Locations :
           ReqResponse(t, st, loc)
    \/ \E t \in Tasks, body \in Bodies : RespBody(t, body)
    \/ \E t \in Tasks : NetFail(t)
    \/ \E t \in Tasks : Cancel(t)
    \/ Tick

SpecSession == Init /\ [][NextSession]_vars

\* Concurrent coroutines on one client: the device metadata cache.
NextZwave ==
    \/ \E t \in Tasks, k \in ZwaveKeys : GetZwaveDetails(t, k)
    \/ \E t \in Tasks, st \in Statuses : ZwaveResponse(t, st)
    \/ \E t \in Tasks, text \in Titles \cup {NoTitle} : ZwaveText(t, text)
    \/ \E t \in Tasks : NetFail(t)
    \/ \E t \in Tasks : Cancel(t)

SpecZwave == Init /\ [][NextZwave]_vars

\* ------------------------------------------------------------------ claims

\* A dispatched operation of coroutine t whose own request has gone out.
Sent(t) == task[t].op \in DispatchOps /\ task[t].sends >= 1

\* The outcomes that are the network's or the caller's doing, not the code's
\* reaction to a response.
Interrupted == {"ClientConnectionError", "CancelledError"}

\* Coroutine t has finished operation o after the response to its own request
\* arrived and was handled.
Answered(t, o) ==
    /\ task[t].pc = "done"
    /\ task[t].op = o
    /\ task[t].sends = 1
    /\ task[t].status # 0
    /\ task[t].outcome \notin Interrupted

\* C1 as stated: when a dispatch that found the session invalid has sent its
\* own request, exactly one login request of that dispatch went out and its
\* authentication completed before, the request went out with the session
\* that authentication stored, and that session was valid at that moment.
C1_SentWithValidRefreshedSession ==
    \A t \in Tasks :
        (Sent(t) /\ task[t].sawInvalid) =>
            /\ task[t].logins = 1
            /\ task[t].auths = 1
            /\ task[t].sentOwn
            /\ task[t].sentValid

\* C1 as amended: when a dispatch that found the session invalid has sent its
\* own request, exactly one login request of that dispatch went out and its
\* authentication completed before, and the request went out with the session
\* that authentication stored (the dispatcher does not check it again).
C1_SentAfterOneReauthentication ==
    \A t \in Tasks :
        (Sent(t) /\ task[t].sawInvalid) =>
            /\ task[t].logins = 1
            /\ task[t].auths = 1
            /\ task[t].sentOwn

\* A dispatch found the session invalid, reauthenticated, and its own request
\* is in flight with the refreshed, valid session.
C1_Witness ==
    \E t \in Tasks :
        /\ task[t].pc = "req_wait"
        /\ task[t].sawInvalid
        /\ task[t].logins = 1
        /\ task[t].sentOwn
        /\ task[t].sentValid

\* C2: two concurrent dispatches that both found the session invalid before
\* either login was answered have sent at most one login request in total.
C2_SingleFlight ==
    \A t, u \in Tasks :
        ( /\ t # u
          /\ task[t].op \in DispatchOps /\ task[u].op \in DispatchOps
          /\ task[t].sawInvalid /\ task[u].sawInvalid
          /\ task[t].pc = "login_wait" /\ task[u].pc = "login_wait" )
        => task[t].logins + task[u].logins <= 1

\* C3: a dispatch on the login path makes no validity check and starts no
\* authentication: connect() never checks the session, the login frame is
\* always the innermost dispatcher frame, no operation sends more than one
\* login request, and the dispatcher never recurses without end.
C3_LoginPathNeverReauthenticates ==
    \A t \in Tasks :
        /\ task[t].op = "connect" =>
               task[t].checks = 0 /\ ~task[t].sawInvalid
        /\ task[t].checks <= 1
        /\ task[t].logins <= 1
        /\ Len(task[t].stack) <= 2
        /\ \A i \in 1..Len(task[t].stack) :
               task[t].stack[i] = "login" => i = Len(task[t].stack)
        /\ task[t].outcome # "RecursionError"

\* The login request of a reauthentication is in flight while the stored
\* session is invalid: the dispatcher was entered for "login" with an invalid
\* session and sent the request.
C3_Witness ==
    \E t \in Tasks :
        /\ task[t].pc = "login_wait"
        /\ task[t].stack = <<"authuser", "login">>
        /\ task[t].checks = 1
        /\ ~is_session_valid(cookie, now)

\* A step in which coroutine t calls is_session_valid().
IsSessionValidStep(t) ==
    /\ task[t].pc \in {"idle", "done"}
    /\ task'[t] # task[t]
    /\ task'[t].op = "is_session_valid"

\* C4: is_session_valid returns True exactly when a session cookie is present
\* and its expiration is strictly later than the current time, and False
\* otherwise (no cookie, expiration in the past, expiration equal to now).
C4_ValidIffStrictlyLater ==
    [][ \A t \in Tasks :
            IsSessionValidStep(t) =>
                /\ task'[t].outcome = "ok"
                /\ task'[t].ret \in {"True", "False"}
                /\ task'[t].ret = "True" <=>
                       (cookie.present /\ cookie.expires > now)
                /\ ~cookie.present => task'[t].ret = "False"
                /\ (cookie.present /\ cookie.expires < now) =>
                       task'[t].ret = "False"
                /\ (cookie.present /\ cookie.expires = now) =>
                       task'[t].ret = "False" ]_vars

\* is_session_valid has answered False for a cookie that expires right now.
C4_Witness ==
    \E t \in Tasks :
        /\ task[t].pc = "done"
        /\ task[t].op = "is_session_valid"
        /\ task[t].ret = "False"
        /\ cookie.present
        /\ cookie.expires = now

\* C5: a call of is_session_valid leaves the stored session, the credentials,
\* the device metadata cache and the transport as they are, and sends nothing.
C5_ValidityCheckIsPure ==
    [][ \A t \in Tasks :
            IsSessionValidStep(t) =>
                /\ cookie' = cookie
                /\ credentials' = credentials
                /\ cache' = cache
                /\ closed' = closed
                /\ task'[t].logins = 0
                /\ task'[t].sends = 0
                /\ task'[t].fetches = 0
                /\ task'[t].pc = "done" ]_vars

\* is_session_valid has answered for an expired stored session while the
\* cache holds an entry: the session and the entry are still there.
C5_Witness ==
    \E t \in Tasks :
        /\ task[t].pc = "done"
        /\ task[t].op = "is_session_valid"
        /\ cookie.present
        /\ cookie.expires <= now
        /\ \E k \in ZwaveKeys : cache[k] # None

\* C6: set_alarm_state returns normally on status 200 and on every other
\* status raises VivintSkyApiError with a message that names the arm state.
C6_AlarmErrorIsApiError ==
    \A t \in Tasks :
        Answered(t, "set_alarm_state") =>
            IF task[t].status = 200
            THEN task[t].outcome = "ok"
            ELSE /\ task[t].outcome = "VivintSkyApiError"
                 /\ task[t].ret = task[t].arg

\* C7: get_camera_thumbnail_url returns the Location header on status 302 and
\* on every other status returns None without raising.
C7_ThumbnailUrlNeverRaises ==
    \A t \in Tasks :
        Answered(t, "get_camera_thumbnail_url") =>
            /\ task[t].outcome = "ok"
            /\ task[t].status = 302 => task[t].ret \in Locations
            /\ task[t].status # 302 => task[t].ret = "None"

\* C8: request_camera_thumbnail returns normally whatever the status.
C8_ThumbnailRequestNeverRaises ==
    \A t \in Tasks :
        Answered(t, "request_camera_thumbnail") =>
            /\ task[t].outcome = "ok"
            /\ task[t].ret = "None"

\* A step in which coroutine t calls get_zwave_details(k).
LookupStep(t, k) ==
    /\ task[t].pc \in {"idle", "done"}
    /\ task'[t] # task[t]
    /\ task'[t].op = "get_zwave_details"
    /\ task'[t].arg = k

\* A step in which a lookup of coroutine t that went to the network ends.
LookupEnds(t) ==
    /\ task[t].op = "get_zwave_details"
    /\ task[t].pc \in {"zw_wait", "zw_text"}
    /\ task'[t].pc = "done"

\* C9: a lookup that resolves a key stores what it returns, and a lookup of a
\* stored key sends nothing, returns the stored value and leaves the cache
\* as it is.
C9_CacheHit ==
    [][ \A t \in Tasks :
            /\ (LookupEnds(t) /\ task'[t].info # None) =>
                   cache'[task[t].arg] = task'[t].info
            /\ \A k \in ZwaveKeys :
                   (LookupStep(t, k) /\ cache[k] # None) =>
                       /\ task'[t].pc = "done"
                       /\ task'[t].outcome = "ok"
                       /\ task'[t].info = cache[k]
                       /\ task'[t].fetches = 0
                       /\ cache' = cache ]_vars

\* A lookup has returned the stored value of its key without a network call.
C9_Witness ==
    \E t \in Tasks :
        /\ task[t].pc = "done"
        /\ task[t].op = "get_zwave_details"
        /\ task[t].fetches = 0
        /\ task[t].info # None
        /\ task[t].info = cache[task[t].arg]

\* C10: a lookup that ends without a result (a status other than 200, a page
\* without title, a failed transfer) leaves the cache as it is, and the next
\* lookup of that key goes to the network again.
C10_NoNegativeCaching ==
    [][ \A t \in Tasks :
            /\ (LookupEnds(t) /\ task'[t].info = None) => cache' = cache
            /\ \A k \in ZwaveKeys :
                   ( /\ task[t].pc = "done"
                     /\ task[t].op = "get_zwave_details"
                     /\ task[t].arg = k
                     /\ task[t].fetches = 1
                     /\ task[t].info = None
                     /\ LookupStep(t, k) ) =>
                       /\ task'[t].pc = "zw_wait"
                       /\ task'[t].fetches = 1 ]_vars

\* A lookup of a key has failed on a page without title and the key is still
\* not stored.
C10_Witness ==
    \E t \in Tasks :
        /\ task[t].pc = "done"
        /\ task[t].op = "get_zwave_details"
        /\ task[t].outcome = "TypeError"
        /\ task[t].fetches = 1
        /\ cache[task[t].arg] = None

\* Coroutine t (connect, or a dispatch that reauthenticates) has finished
\* right after the body of its login response was read.
LoginFinished(t) ==
    /\ task[t].pc = "done"
    /\ task[t].op \in {"connect"} \cup DispatchOps
    /\ task[t].logins = 1
    /\ task[t].sends = 0
    /\ task[t].body # "-"

TransportErrors == {"ClientResponseError", "ContentTypeError"}

\* C12 as stated: for every login response whose status is neither 200 nor
\* 401 the authentication ends in a transport error, not in
\* VivintSkyApiAuthenticationError and not in success.
C12_OtherStatusIsTransportError ==
    \A t \in Tasks :
        (LoginFinished(t) /\ task[t].status \notin {200, 401}) =>
            task[t].outcome \in TransportErrors

\* C12 as amended: for every login response whose status is 400 or above and
\* not 401 the authentication ends in a transport error: ClientResponseError
\* with the server's status when the body is JSON, the body's decoding error
\* otherwise. For a status below 400 other than 200 with a JSON body it ends
\* in VivintSkyApiAuthenticationError "Unable to login to Vivint.".
C12_ErrorStatusIsTransportError ==
    \A t \in Tasks :
        (LoginFinished(t) /\ task[t].status \notin {200, 401}) =>
            IF task[t].body = "notjson"
            THEN task[t].outcome = "ContentTypeError"
            ELSE IF task[t].status >= 400
            THEN /\ task[t].outcome = "ClientResponseError"
                 /\ task[t].ret = ToString(task[t].status)
            ELSE /\ task[t].outcome = "VivintSkyApiAuthenticationError"
                 /\ task[t].ret = "Unable to login to Vivint."

\* connect() has ended in ClientResponseError 403 after a login response with
\* status 403.
C12_Witness ==
    \E t \in Tasks :
        /\ LoginFinished(t)
        /\ task[t].op = "connect"
        /\ task[t].status = 403
        /\ task[t].outcome = "ClientResponseError"
        /\ task[t].ret = "403"

\* The step in which the caller abandons coroutine t.
CancelStep(t) ==
    /\ Suspended(t)
    /\ task'[t].pc = "done"
    /\ task'[t].outcome = "CancelledError"

\* C13 as stated: a dispatch that was abandoned has not replaced the stored
\* session, whatever suspension point it was abandoned at.
C13_AbandonedDispatchLeavesSession ==
    \A t \in Tasks :
        (task[t].op \in DispatchOps /\ task[t].outcome = "CancelledError") =>
            ~task[t].stored

\* C13 as amended: abandoning a dispatch changes nothing of the stored session
\* by itself, and a dispatch abandoned before its login response arrived (or
\* one that needed no reauthentication) leaves the session as it was at its
\* start; a dispatch abandoned later has replaced the session only if its
\* login request was answered with status 200.
C13_AbandoningChangesNoSession ==
    [][\A t \in Tasks :
          (task[t].op \in DispatchOps /\ CancelStep(t)) =>
              /\ cookie' = cookie
              /\ task'[t].stored = task[t].stored
              /\ (task[t].pc = "login_wait" \/ ~task[t].sawInvalid) =>
                     ~task'[t].stored
              /\ task'[t].stored =>
                     /\ task[t].logins = 1
                     /\ task[t].sends = 0 => task[t].status = 200]_vars

\* A dispatch was abandoned while the body of its 200 login response was
\* read: the session it stored stays.
C13_Witness ==
    \E t \in Tasks :
        /\ task[t].op \in DispatchOps
        /\ task[t].outcome = "CancelledError"
        /\ task[t].sawInvalid
        /\ task[t].sends = 0
        /\ task[t].status = 200
        /\ task[t].stored
        /\ cookie.present

\* The reauthentication of dispatch t has failed: its login request went out
\* and connect did not return.
ReauthFailed(t) ==
    /\ task[t].op \in DispatchOps
    /\ task[t].sawInvalid
    /\ task[t].pc = "done"
    /\ task[t].logins = 1
    /\ task[t].auths = 0

\* C14: a dispatch on a non-login path that found the session invalid sends
\* its own request only after connect has returned; when the
\* reauthentication fails the request was never sent and the operation ends
\* in the error connect raised (for a login response that was read: the
\* error __get_vivintsky_session or connect raises for it).
C14_FailedReauthSendsNothing ==
    \A t \in Tasks :
        /\ (task[t].op \in DispatchOps /\ task[t].sawInvalid
                /\ task[t].auths = 0) => task[t].sends = 0
        /\ ReauthFailed(t) =>
              /\ task[t].sends = 0
              /\ task[t].outcome \notin {"ok", "none"}
              /\ task[t].body # "-" =>
                    LET res == connect(get_vivintsky_session(task[t].status,
                                                             task[t].body))
                    IN  /\ res.exc # "ok"
                        /\ task[t].outcome = res.exc
                        /\ task[t].ret = res.val

\* A dispatch found the session invalid, its login was rejected with 403, and
\* it ended in that error without having sent its request.
C14_Witness ==
    \E t \in Tasks :
        /\ ReauthFailed(t)
        /\ task[t].status = 403
        /\ task[t].body = "msg"
        /\ task[t].outcome = "ClientResponseError"
        /\ task[t].sends = 0

\* The step in which the response to the own request of dispatch t is handled
\* (any step of t out of the wait for it that is not an interruption).
ResponseStep(t) ==
    /\ task[t].pc = "req_wait"
    /\ task'[t] # task[t]
    /\ task'[t].outcome \notin Interrupted

\* C15: whatever the status of the response to the original request, the
\* dispatcher hands it to the endpoint operation (which goes on to read the
\* body or ends), the request has been sent exactly once, no login request is
\* sent and the stored session is not touched in reaction to the status.
C15_ResponseHandedOverUninterpreted ==
    [][\A t \in Tasks :
          ResponseStep(t) =>
              /\ task'[t].status \in Statuses
              /\ task'[t].pc \in {"resp_body", "done"}
              /\ task'[t].sends = 1
              /\ task[t].sends = 1
              /\ task'[t].logins = task[t].logins
              /\ task'[t].auths = task[t].auths
              /\ task'[t].checks = task[t].checks
              /\ cookie' = cookie]_vars

\* get_authuser_data has ended on a 401 answer to its own request, sent once
\* on a session it found valid, with no login request.
C15_Witness ==
    \E t \in Tasks :
        /\ task[t].op = "get_authuser_data"
        /\ task[t].pc = "done"
        /\ task[t].status = 401
        /\ task[t].sends = 1
        /\ task[t].logins = 0
        /\ task[t].outcome \notin Interrupted

\* The step in which coroutine t enters the dispatcher for an endpoint
\* operation.
DispatchStep(t) ==
    /\ Free(t)
    /\ task'[t] # task[t]
    /\ task'[t].op \in DispatchOps

\* C16: a dispatch on a non-login path that finds the session valid at its
\* check goes straight to its own request (or fails on a closed transport)
\* and sends no login request, then or later; so dispatches made one after
\* the other while the stored session is unexpired send no login request.
C16_ValidSessionNoLogin ==
    [][\A t \in Tasks :
          /\ (DispatchStep(t) /\ is_session_valid(cookie, now)) =>
                /\ task'[t].checks = 1
                /\ ~task'[t].sawInvalid
                /\ task'[t].logins = 0
                /\ IF closed THEN task'[t].outcome = "RuntimeError"
                   ELSE task'[t].pc = "req_wait" /\ task'[t].sends = 1
          /\ (task'[t].op \in DispatchOps /\ ~task'[t].sawInvalid) =>
                /\ task'[t].logins = 0
                /\ task'[t].auths = 0
                /\ ~task'[t].stored]_vars

\* After a successful authentication in this behaviour, a dispatch found the
\* session it stored still valid and is waiting for the answer to its own
\* request, having sent no login request.
C16_Witness ==
    \E t \in Tasks :
        /\ task[t].op \in DispatchOps
        /\ task[t].pc = "req_wait"
        /\ ~task[t].sawInvalid
        /\ task[t].logins = 0
        /\ task[t].sentValid
        /\ cookie.token \in Tasks

\* The authentication of t (connect, or the reauthentication of a dispatch)
\* has ended with an error of its own, not an interruption.
AuthFailed(t) ==
    /\ LoginFinished(t)
    /\ task[t].outcome \notin {"ok"} \cup Interrupted

\* C17 as stated: whenever the authentication ends with an error, the stored
\* session has not been replaced by it.
C17_FailedAuthLeavesSession ==
    \A t \in Tasks : AuthFailed(t) => ~task[t].stored

\* C17 as amended: the stored session is replaced only by the arrival of a
\* login response with status 200, by the cookie of that response; no step in
\* which a coroutine ends with an error changes it; and an authentication
\* that ends with an error has replaced the session exactly when its login
\* response had status 200 (empty or undecodable payload).
C17_SessionReplacedOnlyByAcceptedLogin ==
    [][/\ cookie' # cookie =>
              \E t \in Tasks :
                  /\ task[t].pc = "login_wait"
                  /\ task'[t].pc = "login_body"
                  /\ task'[t].status = 200
                  /\ task'[t].stored
                  /\ cookie' = task'[t].authCookie
       /\ \A t \in Tasks :
              /\ (task[t].pc # "done" /\ task'[t].pc = "done"
                      /\ task'[t].outcome # "ok") => cookie' = cookie
              /\ (task[t].pc = "login_body" /\ task'[t].pc = "done"
                      /\ task'[t].outcome \notin {"ok"} \cup Interrupted) =>
                     (task'[t].stored <=> task'[t].status = 200)]_vars

\* connect() ended with VivintSkyApiAuthenticationError because the 200 login
\* response had an empty payload, and the cookie of that response is stored.
C17_Witness ==
    \E t \in Tasks :
        /\ AuthFailed(t)
        /\ task[t].op = "connect"
        /\ task[t].status = 200
        /\ task[t].body = "empty"
        /\ task[t].outcome = "VivintSkyApiAuthenticationError"
        /\ task[t].stored
        /\ cookie.token = t

\* How far a coroutine has come: every suspension point has its place in the
\* order login request, login body, own request, own body, end.
PcRank(pc) ==
    CASE pc = "idle"       -> 0
      [] pc = "login_wait" -> 1
      [] pc = "login_body" -> 2
      [] pc = "req_wait"   -> 3
      [] pc = "resp_body"  -> 4
      [] pc = "done"       -> 5

\* The network call coroutine t is suspended in returns (with a response, or
\* with the rest of a body).
Resume(t) ==
    \/ \E st \in Statuses, life \in 1..MaxLife : LoginResponse(t, st, life)
    \/ \E body \in Bodies : LoginBody(t, body)
    \/ \E st \in Statuses, loc \in Locations : ReqResponse(t, st, loc)
    \/ \E body \in Bodies : RespBody(t, body)

\* C18: with dispatches of several coroutines interleaved, the chain
\* dispatch -> connect -> login dispatch is never deeper than two frames, one
\* operation sends at most one login request and at most one request of its
\* own, the login request first, and every step of a running operation takes
\* it strictly forward in the order of its suspension points, each of which
\* it leaves as soon as the network call returns: it ends after at most four
\* steps.
C18_DispatchTerminates ==
    [][\A t \in Tasks :
          /\ Len(task'[t].stack) <= 2
          /\ task'[t].outcome # "RecursionError"
          /\ task'[t].logins <= 1
          /\ task'[t].sends <= 1
          /\ task'[t].pc \in {"login_wait", "login_body"} =>
                 task'[t].sends = 0
          /\ (~Free(t) /\ task'[t] # task[t]) =>
                 PcRank(task'[t].pc) > PcRank(task[t].pc)
          /\ Suspended(t) => ENABLED Resume(t)]_vars

\* Two interleaved dispatches have both ended after one login request and one
\* request of their own each.
C18_Witness ==
    \A t \in Tasks :
        /\ task[t].op \in DispatchOps
        /\ task[t].pc = "done"
        /\ task[t].logins = 1
        /\ task[t].sends = 1
        /\ task[t].outcome = "ok"

\* C19 as stated: once a key has a stored value, no step removes or changes
\* it, whatever lookups are interleaved.
C19_CacheWriteOnce ==
    [][\A k \in ZwaveKeys : cache[k] # None => cache'[k] = cache[k]]_vars

\* C19 as amended: a stored value is never removed; a lookup started on a
\* stored key never writes; a stored value is overwritten only by a lookup of
\* the same key that was started before the value was stored (it missed, went
\* to the device database, and stores what it read there on its return).
C19_CacheOnlyOverwrittenByPendingMiss ==
    [][\A k \in ZwaveKeys :
          /\ cache[k] # None => cache'[k] # None
          /\ \A t \in Tasks :
                 (LookupStep(t, k) /\ cache[k] # None) =>
                     /\ cache' = cache
                     /\ task'[t].pc = "done"
                     /\ task'[t].fetches = 0
          /\ cache'[k] # cache[k] =>
                 \E t \in Tasks :
                     /\ task[t].pc = "zw_text"
                     /\ task[t].arg = k
                     /\ task[t].fetches = 1
                     /\ task'[t].pc = "done"
                     /\ task'[t].outcome = "ok"
                     /\ task'[t].info = cache'[k]
                     /\ \A j \in ZwaveKeys \ {k} : cache'[j] = cache[j]]_vars

\* Two lookups of one key were started before either completed, both read the
\* device database, and the cache holds what the second one stored, which is
\* not what the first one returned.
C19_Witness ==
    \E k \in ZwaveKeys :
        /\ \A t \in Tasks :
               /\ task[t].op = "get_zwave_details"
               /\ task[t].arg = k
               /\ task[t].pc = "done"
               /\ task[t].outcome = "ok"
               /\ task[t].fetches = 1
        /\ \E t \in Tasks : task[t].info # cache[k]
        /\ \E t \in Tasks : task[t].info = cache[k]

\* The step in which coroutine t runs disconnect().
DisconnectStep(t) ==
    /\ Free(t)
    /\ task'[t].op = "disconnect"
    /\ task'[t] # task[t] \/ closed' # closed

\* C20: disconnect() leaves the transport session closed exactly when the
\* client made it itself (or it was closed already), never closes one the
\* caller supplied, and changes neither the session cookie nor the device
\* metadata cache; nothing else closes the transport session.
C20_DisconnectClosesOwnSessionOnly ==
    [][/\ \A t \in Tasks :
              DisconnectStep(t) =>
                  /\ closed' = (closed \/ ~hasCustom)
                  /\ hasCustom => ~closed'
                  /\ cookie' = cookie
                  /\ cache' = cache
                  /\ task'[t].outcome = "ok"
       /\ hasCustom => ~closed'
       /\ closed' # closed => \E t \in Tasks : DisconnectStep(t)]_vars

\* disconnect() has returned on a client whose transport session was supplied
\* by the caller: it is open, the session cookie and a cache entry are still
\* there.
C20_Witness ==
    \E t \in Tasks :
        /\ task[t].op = "disconnect"
        /\ task[t].pc = "done"
        /\ hasCustom
        /\ ~closed
        /\ cookie.present
        /\ \E k \in ZwaveKeys : cache[k] # None

====
